---- MODULE Spec2Model ----
(***************************************************************************)
(* Red-black tree of algo_and_ds/red_black_tree.py.                        *)
(*                                                                         *)
(* The heap is a function from node handles to RBNode records.  Handle 0   *)
(* is the class attribute NIL_LEAF shared by every empty child slot; the   *)
(* handles 1, 2, ... are the RBNode objects created by add, in order of    *)
(* creation.  Python's None is the number -1, both as a reference and as   *)
(* the value of NIL_LEAF.                                                  *)
(*                                                                         *)
(* The second program, algo_and_ds/castle_on_grid_using_bfs_fbinterview38  *)
(* .py, is the loop of minimumMoves over its own variables; it shares      *)
(* nothing with the tree, and each specification holds the other           *)
(* program's variables still.                                              *)
(***************************************************************************)
EXTENDS Integers, Sequences, FiniteSets, TLC

\* Bounds of the model: the values handed to add and the number of RBNode
\* objects add may create.
MaxVal == 6
MaxNodes == 6

\* Bound of the grids handed to minimumMoves: the number of cells of a
\* grid (rows times columns); every shape within it is tried.
MaxCells == 6

Values == 1..MaxVal

None == -1
NIL_LEAF == 0
BLACK == "BLACK"
RED == "RED"

VARIABLES
    node,       \* heap: handle -> [value, color, parent, left, right]
    root,       \* RedBlackTree.root (None or a handle)
    count,      \* RedBlackTree.count
    lastValue,  \* argument of the latest add call (None before the first)
    result,     \* how the latest add call ended: returned value or exception
    added       \* history: the values handed to add so far

treeVars == <<node, root, count, lastValue, result, added>>

VARIABLES
    grid,       \* minimumMoves: the grid, row -> column -> "." or "X"
    start,      \* <<startX, startY>>
    goal,       \* <<goalX, goalY>>
    queue,      \* the deque of <<row, col, moves>>
    visited,    \* the set of visited <<row, col>>
    ret,        \* the value minimumMoves returned (None while it runs)
    pc          \* "idle" (not called), "loop" (in the while loop), "done"

gridVars == <<grid, start, goal, queue, visited, ret, pc>>

vars == <<node, root, count, lastValue, result, added,
          grid, start, goal, queue, visited, ret, pc>>

\* RBNode.__init__
RBNode(value, color, parent, left, right) ==
    [value |-> value, color |-> color, parent |-> parent,
     left |-> left, right |-> right]

Handles(h) == DOMAIN h

\* Attribute stores, one Python assignment each.
SetLeft(h, n, v) == [h EXCEPT ![n].left = v]
SetRight(h, n, v) == [h EXCEPT ![n].right = v]
SetColor(h, n, c) == [h EXCEPT ![n].color = c]

\* RBNode.__eq__(a, b), as used by `parent == grandfather.left` and
\* `uncle == self.NIL_LEAF`: equality of value, colour and parent's
\* value and colour, not identity.
RBNode_eq(h, a, b) ==
    IF h[a].value = None /\ h[b].value = None THEN TRUE
    ELSE LET parents_are_same ==
                 IF h[a].parent = None \/ h[b].parent = None
                 THEN h[a].parent = None /\ h[b].parent = None
                 ELSE /\ h[h[a].parent].value = h[h[b].parent].value
                      /\ h[h[a].parent].color = h[h[b].parent].color
         IN  /\ h[a].value = h[b].value
             /\ h[a].color = h[b].color
             /\ parents_are_same

\* _find_parent.inner_find: the descent from `parent`.  The Python recursion
\* has no bound of its own; a descent longer than the number of nodes has
\* entered a cycle of child links and ends in RecursionError.
RECURSIVE inner_find(_, _, _, _)
inner_find(h, value, parent, fuel) ==
    IF fuel = 0 THEN [parent |-> None, dir |-> "RecursionError"]
    ELSE IF value = h[parent].value THEN [parent |-> parent, dir |-> "None"]
    ELSE IF value < h[parent].value
    THEN IF h[h[parent].left].value = None
         THEN [parent |-> parent, dir |-> "L"]
         ELSE inner_find(h, value, h[parent].left, fuel - 1)
    ELSE IF h[h[parent].right].value = None
         THEN [parent |-> parent, dir |-> "R"]
         ELSE inner_find(h, value, h[parent].right, fuel - 1)

find_parent(h, r, value) == inner_find(h, value, r, Cardinality(Handles(h)))

\* _right_rotation(A, X, B, Y, C, to_recolor): four link stores in program
\* order, then the three colour stores.
right_rotation(h, A, X, B, Y, C, to_recolor) ==
    LET h1 == SetLeft(h, X, A)
        h2 == SetRight(h1, X, Y)
        h3 == SetLeft(h2, Y, B)
        h4 == SetRight(h3, Y, C)
    IN  IF to_recolor # None
        THEN SetColor(SetColor(SetColor(h4, X, BLACK), to_recolor, RED), Y, RED)
        ELSE h4

\* _left_rotation(A, X, B, Y, C, to_recolor)
left_rotation(h, A, X, B, Y, C, to_recolor) ==
    LET h1 == SetLeft(h, Y, X)
        h2 == SetRight(h1, Y, C)
        h3 == SetLeft(h2, X, A)
        h4 == SetRight(h3, X, B)
    IN  IF to_recolor # None
        THEN SetColor(SetColor(SetColor(h4, Y, BLACK), to_recolor, RED), X, RED)
        ELSE h4

\* self._recolor(grandfather): _recolor is declared `def _recolor(node)`,
\* without self, so the bound call passes two positional arguments to a
\* function of one and raises TypeError before any statement of its body.
recolor(h, n) == [heap |-> h, exc |-> "TypeError"]

\* _try_rebalance(node): the heap it leaves and the exception it raises
\* ("" when it returns).
try_rebalance(h, n) ==
    LET parent == h[n].parent IN
    IF \/ parent = None
       \/ h[parent].parent = None
       \/ h[n].color # RED
       \/ h[parent].color # RED
    THEN [heap |-> h, exc |-> ""]
    ELSE
    LET grandfather == h[parent].parent
        node_direction == IF h[n].value < h[parent].value THEN "L" ELSE "R"
        parent_direction ==
            IF RBNode_eq(h, parent, h[grandfather].left) THEN "L" ELSE "R"
        uncle == IF node_direction = "L" THEN h[grandfather].right
                                         ELSE h[grandfather].left
        general_direction == <<parent_direction, node_direction>>
    IN  IF RBNode_eq(h, uncle, NIL_LEAF) \/ h[uncle].color = BLACK
        THEN CASE general_direction = <<"L", "L">> ->
                    [heap |-> right_rotation(h, n, h[parent].right, parent,
                                             grandfather, uncle, n),
                     exc |-> ""]
               [] general_direction = <<"R", "R">> ->
                    [heap |-> left_rotation(h, uncle, grandfather,
                                            h[parent].left, parent, n, n),
                     exc |-> ""]
               [] general_direction = <<"L", "R">> ->
                    [heap |-> h, exc |-> "NotImplementedError"]
               [] general_direction = <<"R", "L">> ->
                    [heap |-> h, exc |-> "NotImplementedError"]
               [] OTHER -> [heap |-> h, exc |-> "ValueError"]
        ELSE recolor(h, grandfather)

Returned(v) == [kind |-> "return", val |-> v, exc |-> ""]
Raised(e) == [kind |-> "raise", val |-> None, exc |-> e]

NewHandle == Cardinality(Handles(node))

\* add, empty tree: the value becomes the Black root and add returns None.
AddRoot(value) ==
    /\ root = None
    /\ NewHandle <= MaxNodes
    /\ node' = node @@ (NewHandle :>
                   RBNode(value, BLACK, None, NIL_LEAF, NIL_LEAF))
    /\ root' = NewHandle
    /\ count' = count + 1
    /\ result' = Returned(None)
    /\ lastValue' = value
    /\ added' = added \cup {value}
    /\ UNCHANGED gridVars

\* A duplicate add that reports the duplicate by raising instead of
\* returning silently.
AddDuplicateRaises(value) ==
    /\ root # None
    /\ find_parent(node, root, value).dir = "None"
    /\ result' = Raised("ValueError")
    /\ lastValue' = value
    /\ added' = added \cup {value}
    /\ UNCHANGED <<node, root, count>>
    /\ UNCHANGED gridVars

\* add, the descent meets an equal value: return None, nothing stored.
AddDuplicate(value) ==
    /\ root # None
    /\ find_parent(node, root, value).dir = "None"
    /\ result' = Returned(None)
    /\ lastValue' = value
    /\ added' = added \cup {value}
    /\ UNCHANGED <<node, root, count>>
    /\ UNCHANGED gridVars

\* add, the descent finds an empty slot: link a Red node there, rebalance,
\* then count it and return it.  An exception of _try_rebalance leaves add
\* after the node was linked and before count += 1.
AddNew(value) ==
    /\ root # None
    /\ NewHandle <= MaxNodes
    /\ LET found == find_parent(node, root, value)
           new_node == NewHandle
           h0 == node @@ (new_node :>
                     RBNode(value, RED, found.parent, NIL_LEAF, NIL_LEAF))
           h1 == IF found.dir = "L" THEN SetLeft(h0, found.parent, new_node)
                                    ELSE SetRight(h0, found.parent, new_node)
           rb == try_rebalance(h1, new_node)
       IN  /\ found.dir \in {"L", "R"}
           /\ node' = rb.heap
           /\ IF rb.exc = ""
              THEN /\ count' = count + 1
                   /\ result' = Returned(new_node)
              ELSE /\ count' = count
                   /\ result' = Raised(rb.exc)
    /\ lastValue' = value
    /\ added' = added \cup {value}
    /\ UNCHANGED root
    /\ UNCHANGED gridVars

\* add, the descent runs round a cycle of child links: RecursionError out
\* of _find_parent, nothing stored.
AddNoDescentEnd(value) ==
    /\ root # None
    /\ find_parent(node, root, value).dir = "RecursionError"
    /\ result' = Raised("RecursionError")
    /\ lastValue' = value
    /\ added' = added \cup {value}
    /\ UNCHANGED <<node, root, count>>
    /\ UNCHANGED gridVars

\* RedBlackTree.add(value)
add(value) ==
    \/ AddRoot(value)
    \/ AddDuplicate(value)
    \/ AddNew(value)
    \/ AddNoDescentEnd(value)

\* minimumMoves has not been called.
GridIdle ==
    /\ grid = <<>>
    /\ start = <<0, 0>>
    /\ goal = <<0, 0>>
    /\ queue = <<>>
    /\ visited = {}
    /\ ret = None
    /\ pc = "idle"

\* NIL_LEAF as created at class definition, and RedBlackTree.__init__.
TreeInit ==
    /\ node = (NIL_LEAF :> RBNode(None, BLACK, None, None, None))
    /\ root = None
    /\ count = 0
    /\ lastValue = None
    /\ result = [kind |-> "init", val |-> None, exc |-> ""]
    /\ added = {}

Init == TreeInit /\ GridIdle

Next == \E value \in Values : add(value)

Spec == Init /\ [][Next]_vars


(***************************************************************************)
(* Observations of the tree.                                               *)
(***************************************************************************)

\* Depth bound of the recursive observers: a path of child links longer
\* than the number of nodes repeats a node.
Fuel == Cardinality(Handles(node))

IsReal(h, n) == n # None /\ h[n].value # None

\* The real children of a real node.
Children(h, n) == {c \in {h[n].left, h[n].right} : IsReal(h, c)}

RECURSIVE ReachFrom(_, _, _)
ReachFrom(h, S, fuel) ==
    LET T == S \cup UNION {Children(h, n) : n \in S}
    IN  IF fuel = 0 \/ T = S THEN S ELSE ReachFrom(h, T, fuel - 1)

\* The real nodes at or below n (none when n is None or the sentinel).
Subtree(h, n) ==
    IF IsReal(h, n) THEN ReachFrom(h, {n}, Cardinality(Handles(h))) ELSE {}

\* The nodes reachable from root.
Reachable == Subtree(node, root)

\* A cycle of child links is reachable from root.
HasCycle ==
    \E n \in Reachable : \E c \in Children(node, n) : n \in Subtree(node, c)

\* RBNode.__iter__: in-order traversal below n.  A recursion deeper than
\* the number of nodes never ends in Python (RecursionError); it is marked
\* by a None in the sequence.
RECURSIVE RBNode_iter(_, _, _)
RBNode_iter(h, n, fuel) ==
    IF fuel = 0 THEN <<None>>
    ELSE (IF h[h[n].left].value # None
          THEN RBNode_iter(h, h[n].left, fuel - 1) ELSE <<>>)
         \o <<h[n].value>>
         \o (IF h[h[n].right].value # None
             THEN RBNode_iter(h, h[n].right, fuel - 1) ELSE <<>>)

\* RedBlackTree.__iter__
tree_iter == IF root = None THEN <<>> ELSE RBNode_iter(node, root, Fuel)

Range(s) == {s[i] : i \in DOMAIN s}

IterCompletes == None \notin Range(tree_iter)

\* Number of real nodes on the longest path from n down to a sentinel
\* (cut off at fuel on a cycle).
RECURSIVE Height(_, _, _)
Height(h, n, fuel) ==
    IF ~IsReal(h, n) \/ fuel = 0 THEN 0
    ELSE LET l == Height(h, h[n].left, fuel - 1)
             r == Height(h, h[n].right, fuel - 1)
         IN  1 + (IF l > r THEN l ELSE r)

\* The numbers of Black real nodes on the paths from n down to a sentinel
\* (paths of at most fuel nodes).
RECURSIVE BlackCounts(_, _, _)
BlackCounts(h, n, fuel) ==
    IF ~IsReal(h, n) THEN {0}
    ELSE IF fuel = 0 THEN {}
    ELSE LET own == IF h[n].color = BLACK THEN 1 ELSE 0
         IN  {own + k : k \in BlackCounts(h, h[n].left, fuel - 1)
                                \cup BlackCounts(h, h[n].right, fuel - 1)}

RECURSIVE Pow2(_)
Pow2(k) == IF k = 0 THEN 1 ELSE 2 * Pow2(k - 1)

\* The descent of add from root meets a node holding v.
Stored(v) == root # None /\ find_parent(node, root, v).dir = "None"

(***************************************************************************)
(* Properties.                                                             *)
(***************************************************************************)

\* C1: after any sequence of add calls, iterating the tree yields exactly
\* the distinct values that were added, each exactly once.
C1_IterYieldsAdded ==
    /\ IterCompletes
    /\ Range(tree_iter) = added
    /\ Len(tree_iter) = Cardinality(added)

\* C2: after every add call that returns, the tree reachable from root is
\* a binary search tree: below every reachable node the left subtree holds
\* only smaller values and the right subtree only larger ones.
C2_BstAfterAdd ==
    result.kind = "return" =>
        \A n \in Reachable :
            /\ \A m \in Subtree(node, node[n].left) :
                   node[m].value < node[n].value
            /\ \A m \in Subtree(node, node[n].right) :
                   node[m].value > node[n].value

\* C3: after every add call that returns, the node referenced by root is
\* Black.
C3_RootBlack ==
    result.kind = "return" => node[root].color = BLACK

\* C4: after every add call that returns, no Red node reachable from root
\* has a Red child.
C4_NoRedRed ==
    result.kind = "return" =>
        \A n \in Reachable : \A c \in Children(node, n) :
            ~(node[n].color = RED /\ node[c].color = RED)

\* C5: after every add call that returns, all paths from a reachable node
\* down to a sentinel pass through the same number of Black nodes.
C5_UniformBlackHeight ==
    result.kind = "return" =>
        \A n \in Reachable :
            Cardinality(BlackCounts(node, n, 2 * Fuel)) = 1

\* C6: count equals the number of distinct values that were added.
C6_CountIsDistinctAdded == count = Cardinality(added)

\* C7: the height h of the tree satisfies 2^h <= (count + 1)^2.
C7_HeightBound ==
    Pow2(Height(node, root, Fuel)) <= (count + 1) * (count + 1)

\* C8: add(v) directly after add(v) leaves the in-order sequence, the
\* structure and the colours of the tree as the first add(v) left them.
C8_DuplicateIdempotent ==
    [][lastValue' = lastValue =>
          /\ tree_iter' = tree_iter
          /\ root' = root
          /\ node' = node]_vars

\* C9: add(v) of a value the descent from root finds stored raises
\* nothing and leaves count, root and every node's colour and links
\* unchanged.
C9_DuplicateIsNoOp ==
    [][\A v \in Values :
          (Stored(v) /\ lastValue' = v) =>
              /\ result'.kind = "return"
              /\ count' = count
              /\ root' = root
              /\ node' = node]_vars

\* C9 witness: a duplicate add(1) has returned None on the tree of 1 and 2
\* (an add that returns None with count 2 met a stored value: the only
\* other add returning None is the one into the empty tree, count 1).
C9_Witness ==
    /\ result = Returned(None)
    /\ lastValue = 1
    /\ count = 2
    /\ tree_iter = <<1, 2>>

\* C10: add(v) returns a handle to the node holding v whenever v is newly
\* inserted, the empty tree included, and returns the duplicate-skip
\* indication (None) only when v was already stored.
C10_ReturnTellsOutcome ==
    [][\A v \in Values :
          lastValue' = v =>
              /\ ~Stored(v) =>
                     /\ result'.kind = "return"
                     /\ result'.val # None
                     /\ node'[result'.val].value = v
              /\ result' = Returned(None) => Stored(v)]_vars

(***************************************************************************)
(* The rebalancing cases, read off the tree before the add.                *)
(***************************************************************************)

\* add(v) is about to link a new Red node on side nd of a Red node that is
\* the child on side pd of the node its parent link names.
InsertCase(v, pd, nd) ==
    /\ root # None
    /\ NewHandle <= MaxNodes
    /\ LET found == find_parent(node, root, v) IN
       /\ found.dir = nd
       /\ node[found.parent].color = RED
       /\ node[found.parent].parent # None
       /\ LET g == node[found.parent].parent
          IN  (IF pd = "L" THEN node[g].left ELSE node[g].right)
                  = found.parent

\* The parent, the grandparent and the uncle (the grandparent's child on
\* the side opposite to pd) of the node add(v) is about to link.
CaseParent(v) == find_parent(node, root, v).parent
CaseGrandparent(v) == node[CaseParent(v)].parent
CaseUncle(v, pd) ==
    IF pd = "L" THEN node[CaseGrandparent(v)].right
                ELSE node[CaseGrandparent(v)].left

BlackOrSentinel(h, u) == h[u].value = None \/ h[u].color = BLACK

\* In the step, n has taken the position of g: whatever referenced g (the
\* root reference, or a child slot of a node other than n and its new
\* children) references n afterwards.
TakesPosition(n, g, below) ==
    /\ root = g => root' = n
    /\ \A q \in Handles(node) \ ({NIL_LEAF, n} \cup below) :
           /\ node[q].left = g => node'[q].left = n
           /\ node[q].right = g => node'[q].right = n

\* The step is an add(v) that created a node.
AddedNode(v) == lastValue' = v /\ Handles(node') # Handles(node)

\* C11: no add call raises an error.
C11_NoAddRaises == result.kind # "raise"

\* C12: every add call ends its descent, and the child links reachable
\* from root never form a cycle.
C12_NoCycleDescentEnds == ~HasCycle /\ result.exc # "RecursionError"

\* C13: RR case with a Black or sentinel uncle: the parent takes the
\* grandparent's position, the grandparent becomes the parent's left
\* child, the parent is Black and the grandparent Red.
C13_RRCase ==
    [][\A v \in Values :
          (/\ InsertCase(v, "R", "R")
           /\ BlackOrSentinel(node, CaseUncle(v, "R"))
           /\ AddedNode(v)) =>
              LET p == CaseParent(v)
                  g == CaseGrandparent(v)
              IN  /\ TakesPosition(p, g, {})
                  /\ node'[p].left = g
                  /\ node'[p].color = BLACK
                  /\ node'[g].color = RED]_vars

\* C14: LL case with a Black or sentinel uncle: the parent takes the
\* grandparent's position, the grandparent becomes the parent's right
\* child, the parent is Black and the grandparent Red, and no link of the
\* sentinel is written.
C14_LLCase ==
    [][\A v \in Values :
          (/\ InsertCase(v, "L", "L")
           /\ BlackOrSentinel(node, CaseUncle(v, "L"))
           /\ AddedNode(v)) =>
              LET p == CaseParent(v)
                  g == CaseGrandparent(v)
              IN  /\ TakesPosition(p, g, {})
                  /\ node'[p].right = g
                  /\ node'[p].color = BLACK
                  /\ node'[g].color = RED
                  /\ node'[NIL_LEAF] = node[NIL_LEAF]]_vars

\* C15: LR / RL case with a Black or sentinel uncle: the new node ends up
\* Black in the grandparent's position with the former parent and the
\* grandparent as its Red children.
C15_MixedCase ==
    [][\A v \in Values : \A pd \in {"L", "R"} :
          (/\ InsertCase(v, pd, IF pd = "L" THEN "R" ELSE "L")
           /\ BlackOrSentinel(node, CaseUncle(v, pd))
           /\ AddedNode(v)) =>
              LET p == CaseParent(v)
                  g == CaseGrandparent(v)
                  n == NewHandle
              IN  /\ TakesPosition(n, g, {p})
                  /\ node'[n].color = BLACK
                  /\ node'[n].left = (IF pd = "L" THEN p ELSE g)
                  /\ node'[n].right = (IF pd = "L" THEN g ELSE p)
                  /\ node'[p].color = RED
                  /\ node'[g].color = RED]_vars

\* C16: Red-uncle case: the parent and the uncle (the grandparent's child
\* opposite to the parent) become Black, and the grandparent becomes Red
\* unless it is the root, which stays Black.
C16_RedUncleCase ==
    [][\A v \in Values : \A pd, nd \in {"L", "R"} :
          (/\ InsertCase(v, pd, nd)
           /\ ~BlackOrSentinel(node, CaseUncle(v, pd))
           /\ AddedNode(v)) =>
              LET p == CaseParent(v)
                  g == CaseGrandparent(v)
                  u == CaseUncle(v, pd)
              IN  /\ node'[p].color = BLACK
                  /\ node'[u].color = BLACK
                  /\ node'[g].color = (IF g = root THEN BLACK ELSE RED)]_vars

\* C17: an add in the LR or RL case with a Black or sentinel sibling of the
\* parent ends by raising NotImplementedError.
C17_MixedRaisesNotImplemented ==
    [][\A v \in Values : \A pd \in {"L", "R"} :
          (/\ InsertCase(v, pd, IF pd = "L" THEN "R" ELSE "L")
           /\ BlackOrSentinel(node, CaseUncle(v, pd))
           /\ AddedNode(v)) =>
              result' = Raised("NotImplementedError")]_vars

\* C18: an add call that raises leaves the tree as it was before the call:
\* no node linked, no colour or link changed, count unchanged.
C18_RaiseLeavesTree ==
    [][result'.kind = "raise" =>
          /\ node' = node
          /\ root' = root
          /\ count' = count]_vars

\* C19: root.parent is None and every real child c of a node n reachable
\* from root has c.parent = n.
C19_ParentLinksConsistent ==
    root # None =>
        /\ node[root].parent = None
        /\ \A n \in Reachable : \A c \in Children(node, n) :
               node[c].parent = n

(***************************************************************************)
(* minimumMoves of castle_on_grid_using_bfs_fbinterview38.py.              *)
(***************************************************************************)

\* The grids: a list of rows of equal length over '.' and 'X', indexed
\* from 0 as in Python.
Shapes == {sh \in (1..MaxCells) \X (1..MaxCells) : sh[1] * sh[2] <= MaxCells}
Grids ==
    UNION {[0..(sh[1] - 1) -> [0..(sh[2] - 1) -> {".", "X"}]] : sh \in Shapes}

\* The cells <<row, col>> of a grid.
Cells(g) == (DOMAIN g) \X (DOMAIN g[0])

\* len(grid) and len(grid[0])
len(f) == Cardinality(DOMAIN f)

\* next_pos: the directions top, left, bottom, right.
dirrow == <<-1, 0, 1, 0>>
dircol == <<0, -1, 0, 1>>

\* next_pos(grid, row, col), from the i-th direction on: the cells it
\* yields, in order.
RECURSIVE next_pos_from(_, _, _, _)
next_pos_from(g, row, col, i) ==
    IF i > Len(dirrow) THEN <<>>
    ELSE LET r == row + dirrow[i]
             c == col + dircol[i]
             rest == next_pos_from(g, row, col, i + 1)
         IN  IF /\ 0 <= r /\ r < len(g)
                /\ 0 <= c /\ c < len(g[0])
                /\ g[r][c] = "."
             THEN <<<<r, c>>>> \o rest
             ELSE rest

next_pos(g, row, col) == next_pos_from(g, row, col, 1)

\* The for loop of minimumMoves over next_pos, from its i-th element on:
\* a neighbour not in visited is appended to the queue with moves + 1,
\* and the cell marked visited is the current one.
RECURSIVE for_next(_, _, _, _, _, _)
for_next(nexts, i, vis, q, cur, moves) ==
    IF i > Len(nexts) THEN [visited |-> vis, queue |-> q]
    ELSE IF nexts[i] \notin vis
         THEN for_next(nexts, i + 1, vis \cup {cur},
                       Append(q, <<nexts[i][1], nexts[i][2], moves + 1>>),
                       cur, moves)
         ELSE for_next(nexts, i + 1, vis, q, cur, moves)

\* The head of the queue is popped innermost-first (a stack): the search
\* a deque.pop() in place of popleft() would make.
PopRight(q) == [cell |-> q[Len(q)], rest |-> SubSeq(q, 1, Len(q) - 1)]

\* queue.popleft()
PopLeft(q) == [cell |-> Head(q), rest |-> Tail(q)]

\* while queue: popleft; the cell is the goal: return moves.
ReturnMoves ==
    /\ pc = "loop"
    /\ queue # <<>>
    /\ LET p == PopLeft(queue) IN
       /\ p.cell[1] = goal[1] /\ p.cell[2] = goal[2]
       /\ queue' = p.rest
       /\ ret' = p.cell[3]
    /\ pc' = "done"
    /\ UNCHANGED <<grid, start, goal, visited>>
    /\ UNCHANGED treeVars

\* while queue: popleft; the cell is not the goal: the for loop.
Expand ==
    /\ pc = "loop"
    /\ queue # <<>>
    /\ LET p == PopLeft(queue)
           row == p.cell[1]
           col == p.cell[2]
           after == for_next(next_pos(grid, row, col), 1, visited, p.rest,
                             <<row, col>>, p.cell[3])
       IN  /\ ~(row = goal[1] /\ col = goal[2])
           /\ queue' = after.queue
           /\ visited' = after.visited
    /\ UNCHANGED <<grid, start, goal, ret, pc>>
    /\ UNCHANGED treeVars

\* The queue is empty: return -1.
ReturnNotFound ==
    /\ pc = "loop"
    /\ queue = <<>>
    /\ ret' = -1
    /\ pc' = "done"
    /\ UNCHANGED <<grid, start, goal, queue, visited>>
    /\ UNCHANGED treeVars

\* minimumMoves(grid, startX, startY, goalX, goalY) up to the while loop.
GridInit ==
    /\ TreeInit
    /\ grid \in Grids
    /\ start \in Cells(grid)
    /\ goal \in Cells(grid)
    /\ queue = <<<<start[1], start[2], 0>>>>
    /\ visited = {start}
    /\ ret = None
    /\ pc = "loop"

GridNext == ReturnMoves \/ Expand \/ ReturnNotFound

\* The loop of a sequential program keeps running while it can.
GridSpec == GridInit /\ [][GridNext]_vars /\ WF_vars(GridNext)

\* The cells one unit step up, down, left or right of c that are '.'.
FreeNeighbours(g, c) ==
    {n \in Cells(g) :
        /\ g[n[1]][n[2]] = "."
        /\ \/ n[1] = c[1] /\ (n[2] = c[2] + 1 \/ n[2] = c[2] - 1)
           \/ n[2] = c[2] /\ (n[1] = c[1] + 1 \/ n[1] = c[1] - 1)}

\* Length of a shortest path from the cells S (reached in k steps) to t
\* that enters only '.' cells; -1 when there is none.
RECURSIVE PathLength(_, _, _, _)
PathLength(g, S, t, k) ==
    IF t \in S THEN k
    ELSE LET T == S \cup UNION {FreeNeighbours(g, c) : c \in S}
         IN  IF T = S THEN -1 ELSE PathLength(g, T, t, k + 1)

ShortestPath == PathLength(grid, {start}, goal, 0)

\* C20: minimumMoves terminates and returns the length of a shortest path
\* of unit steps from start to goal that enters only '.' cells, and -1
\* exactly when there is no such path.
C20_MinimumMoves == <>(pc = "done" /\ ret = ShortestPath)

\* C20 witness: the search has returned 3 for a goal three steps away,
\* with the goal cell still waiting in the queue a second time (it was
\* enqueued twice because cells are marked only when dequeued).
C20_Witness ==
    /\ pc = "done"
    /\ ret = 3
    /\ ShortestPath = 3
    /\ \E i \in DOMAIN queue : queue[i][1] = goal[1] /\ queue[i][2] = goal[2]

====
